---------------------------- MODULE Spec2Model ----------------------------
(***************************************************************************)
(* Model of the stock-portfolio dashboard: utils/data_loader.py,           *)
(* utils/portfolio.py, utils/alerts.py and the Streamlit script app.py.    *)
(*                                                                         *)
(* Numbers.  The program computes in IEEE doubles (pandas / numpy).  The   *)
(* model computes in exact rationals <<n, d>> (d > 0, lowest terms)        *)
(* extended with numpy's non-finite values: NaN = <<0,0>>, +inf = <<1,0>>, *)
(* -inf = <<-1,0>>.  Rounding error of the doubles is not modelled.        *)
(***************************************************************************)
EXTENDS Integers, Sequences, FiniteSets, TLC

VARIABLES
    pc,                 \* position of the running script / call
    exc,                \* exception that ended the run ("none" if none)
    tickers_input,      \* app.py:19  text area, as the list of its comma-separated tokens
    raw_weights,        \* app.py:33  the weight number_inputs, by ticker
    tickers,            \* app.py:25  ticker list of the run
    weights,            \* app.py:30  weights dict of the run
    stock_threshold,    \* app.py:57
    portfolio_threshold,\* app.py:60
    load_data_clicked,  \* app.py:69
    start_date,         \* app.py:22
    end_date,           \* app.py:23
    source,             \* what yf.download answers (data_loader.py:10)
    data,               \* app.py:67 / the DataFrame argument of the utils
    invalid_tickers,    \* app.py:78
    initial_value,      \* portfolio.py:5
    portfolio_value,    \* app.py:113/116, the Series argument of the utils
    metrics,            \* portfolio.py:54 and the two ratios
    portfolio_alert,    \* app.py:237
    stock_alerts,       \* app.py:238
    latest_flags        \* app.py:252-272, what "Latest Day Changes" shows

vars == <<pc, exc, tickers_input, raw_weights, tickers, weights, stock_threshold,
          portfolio_threshold, load_data_clicked, start_date, end_date, source,
          data, invalid_tickers, initial_value, portfolio_value, metrics,
          portfolio_alert, stock_alerts, latest_flags>>

----------------------------------------------------------------------------
(* Bounds of the model                                                     *)

MaxDates == 3       \* longest series handed to the alert and metric functions
MaxValue == 3       \* their values range over 1..MaxValue
MaxRows == 2        \* most trading days the market data source answers with
MaxPrice == 2       \* its prices range over 1..MaxPrice
MaxRawWeight == 1   \* raw weights range over 0..MaxRawWeight

Symbols == {"AAPL", "MSFT", "TSLA"}

----------------------------------------------------------------------------
(* Arithmetic: numpy float64 as extended rationals                         *)

NaN == <<0, 0>>
PosInf == <<1, 0>>
NegInf == <<-1, 0>>

Abs(i) == IF i < 0 THEN -i ELSE i
Sign(i) == IF i < 0 THEN -1 ELSE IF i > 0 THEN 1 ELSE 0

RECURSIVE GCD(_, _)
GCD(a, b) == IF b = 0 THEN a ELSE GCD(b, a % b)

Norm(n, d) ==
    IF d = 0 THEN <<Sign(n), 0>>
    ELSE LET g == GCD(Abs(n), Abs(d))
             s == IF d < 0 THEN -1 ELSE 1
         IN  <<(s * n) \div g, (s * d) \div g>>

R(i) == <<i, 1>>
IsNaN(x) == x = NaN
IsFinite(x) == x[2] # 0

RNeg(x) == <<-x[1], x[2]>>
RAbs(x) == <<Abs(x[1]), x[2]>>
RAdd(x, y) ==
    IF IsFinite(x) /\ IsFinite(y) THEN Norm(x[1] * y[2] + y[1] * x[2], x[2] * y[2])
    ELSE IF IsNaN(x) \/ IsNaN(y) THEN NaN
    ELSE IF IsFinite(x) THEN y
    ELSE IF IsFinite(y) THEN x
    ELSE IF x = y THEN x ELSE NaN
RSub(x, y) == RAdd(x, RNeg(y))
RMul(x, y) == Norm(x[1] * y[1], x[2] * y[2])
\* numpy division: x/0 is +-inf, 0/0 is nan, no exception
RDiv(x, y) == Norm(x[1] * y[2] * (IF y[1] < 0 THEN -1 ELSE 1), x[2] * Abs(y[1]))
\* comparisons with NaN are False
RLt(x, y) == RSub(x, y)[1] < 0 /\ ~IsNaN(RSub(x, y))
REq(x, y) == ~IsNaN(x) /\ ~IsNaN(y) /\ x = y
RLe(x, y) == RLt(x, y) \/ REq(x, y)
RGe(x, y) == RLe(y, x)
RGt(x, y) == RLt(y, x)

----------------------------------------------------------------------------
(* pandas Series as sequences of numbers                                   *)

Range(s) == {s[i] : i \in DOMAIN s}

RECURSIVE SumSeq(_)
SumSeq(s) == IF s = <<>> THEN R(0) ELSE RAdd(s[1], SumSeq(Tail(s)))

NotNaN(x) == ~IsNaN(x)
DropNa(s) == SelectSeq(s, NotNaN)

\* Series.min(): NaN entries are skipped; NaN when nothing is left
SeriesMin(s) ==
    LET v == DropNa(s)
    IN  IF v = <<>> THEN NaN
        ELSE CHOOSE m \in Range(v) : \A x \in Range(v) : RLe(m, x)
SeriesMax(s) ==
    LET v == DropNa(s)
    IN  IF v = <<>> THEN NaN
        ELSE CHOOSE m \in Range(v) : \A x \in Range(v) : RGe(m, x)

\* Series.mean(): NaN on an empty series
SeriesMean(s) ==
    LET v == DropNa(s)
    IN  IF v = <<>> THEN NaN ELSE RDiv(SumSeq(v), R(Len(v)))

\* square of Series.std() (ddof=1): NaN with fewer than 2 observations
SeriesVar(s) ==
    LET v == DropNa(s)
        m == SeriesMean(v)
        sq == [i \in DOMAIN v |-> RMul(RSub(v[i], m), RSub(v[i], m))]
    IN  IF Len(v) < 2 THEN NaN ELSE RDiv(SumSeq(sq), R(Len(v) - 1))

\* Series.pct_change(): NaN first, then x[t]/x[t-1] - 1
PctChange(s) ==
    [i \in DOMAIN s |-> IF i = 1 THEN NaN ELSE RSub(RDiv(s[i], s[i - 1]), R(1))]

\* Series.cummax()
CumMaxIsSeries(s) == s
CumMax(s) == [i \in DOMAIN s |-> SeriesMax(SubSeq(s, 1, i))]

----------------------------------------------------------------------------
(* pandas DataFrame: a date index, ordered columns, one series per column  *)

EmptyFrame == [index |-> <<>>, cols |-> <<>>, vals |-> <<>>]
Frame(idx, cols, vals) == [index |-> idx, cols |-> cols, vals |-> vals]
NRows(df) == Len(df.index)
\* DataFrame.empty: no rows or no columns
IsEmpty(df) == Len(df.cols) = 0 \/ NRows(df) = 0
ColSet(df) == Range(df.cols)

----------------------------------------------------------------------------
(* utils/portfolio.py: compute_portfolio_value                             *)

\* the default argument weights=None
None == [None |-> NaN]

RECURSIVE SumOver(_, _)
SumOver(f, S) ==
    IF S = {} THEN R(0)
    ELSE LET k == CHOOSE k \in S : TRUE IN RAdd(f[k], SumOver(f, S \ {k}))

\* sum(weights.values())
SumValues(w) == SumOver(w, DOMAIN w)

\* portfolio.py:20-26, the weights after the defaulting / normalising branch
\* (only evaluated when no exception was raised)
NormalizeWeights(df, w) ==
    IF w = None
    THEN [t \in ColSet(df) |-> RDiv(R(1), R(Len(df.cols)))]
    ELSE [k \in DOMAIN w |-> RDiv(w[k], SumValues(w))]

\* portfolio.py:29
WeightsList(df, w) == [i \in DOMAIN df.cols |-> w[df.cols[i]]]

\* portfolio.py:32-34
WeightedSum(df, wl, init) ==
    [r \in 1..NRows(df) |->
        RMul(SumSeq([i \in DOMAIN df.cols |->
                        RMul(RDiv(df.vals[df.cols[i]][r], df.vals[df.cols[i]][1]), wl[i])]),
             init)]

\* compute_portfolio_value: [exc, value]; exc names the exception the call raises
compute_portfolio_value(df, w, init) ==
    IF IsEmpty(df) THEN [exc |-> "none", value |-> <<>>]
    ELSE IF w # None /\ DOMAIN w # {} /\ SumValues(w) = R(0)
        THEN [exc |-> "ZeroDivisionError", value |-> <<>>]
    ELSE IF ~(ColSet(df) \subseteq DOMAIN NormalizeWeights(df, w))
        THEN [exc |-> "KeyError", value |-> <<>>]
    ELSE [exc |-> "none",
          value |-> WeightedSum(df, WeightsList(df, NormalizeWeights(df, w)), init)]

----------------------------------------------------------------------------
(* utils/portfolio.py: the metrics                                         *)

\* Series.pct_change().dropna()
DailyReturns(pv) == DropNa(PctChange(pv))

\* The standard deviations are square roots, so irrational: a deviation is
\* carried as SqrtOf(its square), and a ratio mean / std * sqrt(252) as
\* Ratio(mean, var), its two rational parts.
SqrtOf(x) == [sqrt_of |-> x]
SqrtNaN == SqrtOf(NaN)

RatioNaN == [num |-> NaN, sqrt_of |-> NaN]
IsRatioNaN(x) == IsNaN(x.num)
\* (mean / std) * sqrt(252): numpy division, so NaN propagates, x/0 is +-inf
\* and 0/0 is NaN
Ratio(mean, var) ==
    IF IsNaN(mean) \/ IsNaN(var) \/ (var = R(0) /\ mean = R(0)) THEN RatioNaN
    ELSE IF var = R(0) THEN [num |-> RDiv(mean, R(0)), sqrt_of |-> R(1)]
    ELSE [num |-> mean, sqrt_of |-> var]

\* risk_free_rate/252 with risk_free_rate=0.02
DailyRiskFree == Norm(2, 100 * 252)

ExcessReturns(pv) ==
    [i \in DOMAIN DailyReturns(pv) |-> RSub(DailyReturns(pv)[i], DailyRiskFree)]

\* portfolio.py:38-58; portfolio_value[-1] raises on an empty Series
compute_portfolio_metrics(pv) ==
    IF Len(pv) = 0
    THEN [exc |-> "IndexError", cumulative_return |-> NaN,
          annual_volatility |-> SqrtNaN, max_drawdown |-> NaN]
    ELSE [exc |-> "none",
          cumulative_return |-> RSub(RDiv(pv[Len(pv)], pv[1]), R(1)),
          annual_volatility |-> SqrtOf(RMul(SeriesVar(DailyReturns(pv)), R(252))),
          max_drawdown |->
              RDiv(SeriesMin([i \in DOMAIN pv |-> RSub(pv[i], CumMax(pv)[i])]),
                   SeriesMax(CumMax(pv)))]

\* portfolio.py:60-67
compute_sharpe_ratio(pv) ==
    Ratio(SeriesMean(ExcessReturns(pv)), SeriesVar(ExcessReturns(pv)))

Negative(x) == RLt(x, R(0))
Positive(x) == RGt(x, R(0))
\* portfolio.py:75, daily_returns[daily_returns < 0]
DownsideReturnsFlipped(pv) == SelectSeq(DailyReturns(pv), Positive)
DownsideReturns(pv) == SelectSeq(DailyReturns(pv), Negative)

\* portfolio.py:69-79
compute_sortino_ratio(pv) ==
    LET downside_var == SeriesVar(DownsideReturns(pv))
    IN  IF REq(downside_var, R(0)) THEN RatioNaN
        ELSE Ratio(SeriesMean(ExcessReturns(pv)), downside_var)

----------------------------------------------------------------------------
(* utils/alerts.py                                                         *)

\* format(x, ".2f") as a signed count of hundredths (round half to even)
Fmt2(x) ==
    LET n == Abs(x[1]) * 100
        q == n \div x[2]
        r == n % x[2]
        m == IF 2 * r > x[2] \/ (2 * r = x[2] /\ q % 2 = 1) THEN q + 1 ELSE q
    IN  Sign(x[1]) * m

NoAlert == [subject |-> "None", magnitude |-> 0, threshold |-> NaN]
Alert(subject, change, thr) ==
    [subject |-> subject, magnitude |-> Fmt2(RAbs(change)), threshold |-> thr]

\* alerts.py:16, (portfolio_value / portfolio_value.iloc[0] - 1) * 100
DropPct(pv) == [i \in DOMAIN pv |-> RMul(RSub(RDiv(pv[i], pv[1]), R(1)), R(100))]

\* app.py:234, portfolio_pct_change.iloc[-1]
LatestDrop(pv) == DropPct(pv)[Len(pv)]

\* alerts.py:17, drop_pct.min()
MinDropLatestOnly(pv) == DropPct(pv)[Len(pv)]
MinDrop(pv) == SeriesMin(DropPct(pv))

\* alerts.py:6-21
CheckPortfolioDropStrict(pv, thr) ==
    IF Len(pv) = 0 THEN NoAlert
    ELSE IF RLt(MinDrop(pv), RNeg(thr)) THEN Alert("Portfolio", MinDrop(pv), thr)
    ELSE NoAlert
check_portfolio_drop(pv, thr) ==
    IF Len(pv) = 0 THEN NoAlert
    ELSE IF RLe(MinDrop(pv), RNeg(thr)) THEN Alert("Portfolio", MinDrop(pv), thr)
    ELSE NoAlert

\* alerts.py:35 / app.py:232, data.pct_change() * 100, by column
DailyChange(df) ==
    [c \in ColSet(df) |->
        [i \in DOMAIN df.vals[c] |-> RMul(PctChange(df.vals[c])[i], R(100))]]

\* app.py:263, daily_change[t].iloc[-1]
LatestChange(df, t) == DailyChange(df)[t][NRows(df)]

\* alerts.py:38, daily_change[ticker].min()
MinChangeLatestOnly(df, t) == DailyChange(df)[t][NRows(df)]
MinChange(df, t) == SeriesMin(DailyChange(df)[t])

\* alerts.py:36-42, the loop over tickers
RECURSIVE StockAlertLoop(_, _, _)
StockAlertLoop(df, ts, thr) ==
    IF ts = <<>> THEN <<>>
    ELSE (IF Head(ts) \in ColSet(df) /\ RLe(MinChange(df, Head(ts)), RNeg(thr))
          THEN <<Alert(Head(ts), MinChange(df, Head(ts)), thr)>>
          ELSE <<>>) \o StockAlertLoop(df, Tail(ts), thr)

\* alerts.py:24-43
check_stock_drops(df, ts, thr) ==
    IF IsEmpty(df) THEN <<>> ELSE StockAlertLoop(df, ts, thr)

----------------------------------------------------------------------------
(* utils/data_loader.py: fetch_stock_data                                  *)
(*                                                                         *)
(* The answer of yf.download is [kind, flat, index, cols, close]: it       *)
(* raises (kind = "raise") or is a frame over the dates `index`; a         *)
(* multi-ticker frame has one close-price column per requested ticker (all *)
(* NaN for a ticker the source has nothing for), a flat one (flat = TRUE)  *)
(* the single column "Close".  "Adj Close" and "Close" are one panel here: *)
(* the selection of data_loader.py:19-29 picks whichever is present.       *)

\* str.upper() on the tokens of the model
Upper(t) == IF t = "aapl" THEN "AAPL" ELSE IF t = "Close" THEN "CLOSE" ELSE t

AllNaN(s) == \A i \in DOMAIN s : IsNaN(s[i])

\* dropna(axis=1, how='all')
DropEmptyColsKeepsAll(df) == df
DropEmptyCols(df) ==
    LET Keep(c) == ~AllNaN(df.vals[c])
        kept == SelectSeq(df.cols, Keep)
    IN  Frame(df.index, kept, [c \in Range(kept) |-> df.vals[c]])

\* fillna(method='ffill'): the last earlier observation
FfillNothing(s) == s
Ffill(s) ==
    [i \in DOMAIN s |->
        IF \E j \in 1..i : ~IsNaN(s[j])
        THEN s[CHOOSE j \in 1..i : ~IsNaN(s[j]) /\ \A k \in (j + 1)..i : IsNaN(s[k])]
        ELSE NaN]
\* fillna(method='bfill'): the first later observation
Bfill(s) ==
    [i \in DOMAIN s |->
        IF \E j \in i..Len(s) : ~IsNaN(s[j])
        THEN s[CHOOSE j \in i..Len(s) : ~IsNaN(s[j]) /\ \A k \in i..(j - 1) : IsNaN(s[k])]
        ELSE NaN]
\* data_loader.py:44
FillFrame(df) ==
    Frame(df.index, df.cols, [c \in ColSet(df) |-> Bfill(Ffill(df.vals[c]))])

\* data_loader.py:52, data.loc[start_date:end_date]
RECURSIVE RowsInRange(_, _, _, _)
RowsInRange(idx, i, s, e) ==
    IF i > Len(idx) THEN <<>>
    ELSE (IF s <= idx[i] /\ idx[i] <= e THEN <<i>> ELSE <<>>) \o RowsInRange(idx, i + 1, s, e)
DateRange(df, s, e) ==
    LET rows == RowsInRange(df.index, 1, s, e)
    IN  Frame([i \in DOMAIN rows |-> df.index[rows[i]]], df.cols,
              [c \in ColSet(df) |-> [i \in DOMAIN rows |-> df.vals[c][rows[i]]]])

\* data_loader.py:32-41, the column labels of the selected panel
Relabel(df, flat, tks) ==
    LET New(c) == IF ~flat THEN c
                  ELSE IF Len(tks) = 1 THEN Upper(tks[1]) ELSE Upper(c)
    IN  Frame(df.index, [i \in DOMAIN df.cols |-> New(df.cols[i])],
              [c \in {New(d) : d \in ColSet(df)} |->
                  df.vals[CHOOSE d \in ColSet(df) : New(d) = c]])

\* data_loader.py:13-54 on a frame the source answered with
FetchFromFrame(src, tks, s, e) ==
    LET raw == DropEmptyCols(Frame(src.index, src.cols, src.close))
        filled == DropEmptyCols(FillFrame(Relabel(raw, src.flat, tks)))
    IN  IF IsEmpty(raw) THEN EmptyFrame
        ELSE IF IsEmpty(filled) THEN EmptyFrame
        ELSE DateRange(filled, s, e)

\* fetch_stock_data: [exc, frame]; an exception of yf.download is not caught
fetch_stock_data(src, tks, s, e) ==
    IF src.kind = "raise" THEN [exc |-> "DownloadError", frame |-> EmptyFrame]
    ELSE [exc |-> "none", frame |-> FetchFromFrame(src, tks, s, e)]

----------------------------------------------------------------------------
(* Input domains                                                           *)

\* alphabetical column order, as the market data source labels its answer
SymbolOrder == <<"AAPL", "MSFT", "TSLA">>
SortedCols(S) == LET In(t) == t \in S IN SelectSeq(SymbolOrder, In)

\* ticker lists without duplicates (app.py:26), in any order
TickerLists ==
    {ts \in UNION {[1..n -> Symbols] : n \in 0..Cardinality(Symbols)} :
        \A i, j \in DOMAIN ts : i # j => ts[i] # ts[j]}

\* gap-free price tables of exactly n rows over the columns S
TablesOver(S, n, maxPrice) ==
    {Frame([i \in 1..n |-> i], SortedCols(S), v) :
        v \in [S -> [1..n -> {R(p) : p \in 1..maxPrice}]]}
Tables(maxCols, maxRows, maxPrice) ==
    UNION {TablesOver(S, n, maxPrice) :
             S \in {T \in SUBSET Symbols : T # {} /\ Cardinality(T) <= maxCols},
             n \in 1..maxRows}

\* the tables whose columns are among Syms
TablesAmong(Syms, maxRows, maxPrice) ==
    UNION {TablesOver(S, n, maxPrice) : S \in (SUBSET Syms) \ {{}}, n \in 1..maxRows}

ValueSeries == UNION {[1..n -> {R(v) : v \in 1..MaxValue}] : n \in 0..MaxDates}

\* alert thresholds: the inputs' minimum, their default and a larger one
\* (app.py:57-62), in percent
ThresholdValues == {R(0), R(2), R(50)}

\* weight dicts over any set of symbols
WeightVectors == UNION {[S -> {R(w) : w \in 0..MaxRawWeight}] : S \in SUBSET Symbols}

\* initial_value: the default of portfolio.py:5 and two others
InitialValues == {R(0), R(1), R(100000)}

NoSource == [kind |-> "none", flat |-> FALSE, index |-> <<>>, cols |-> <<>>, close |-> <<>>]
NoMetrics == [fn |-> "none", exc |-> "none", cumulative_return |-> NaN,
              annual_volatility |-> SqrtNaN, max_drawdown |-> NaN, ratio |-> RatioNaN]

\* the variables a direct call of a utility function does not involve
NoSession ==
    /\ tickers_input = <<>>
    /\ raw_weights = <<>>
    /\ load_data_clicked = FALSE
    /\ start_date = 1
    /\ end_date = MaxRows
    /\ source = NoSource
    /\ invalid_tickers = <<>>
NoResults ==
    /\ metrics = NoMetrics
    /\ portfolio_alert = NoAlert
    /\ stock_alerts = <<>>
    /\ latest_flags = <<>>

----------------------------------------------------------------------------
(* SpecValue: compute_portfolio_value called on any table, weights and     *)
(* initial value                                                           *)

InitValue ==
    /\ pc = "compute_portfolio_value"
    /\ exc = "none"
    /\ NoSession /\ NoResults
    /\ tickers = <<>>
    /\ stock_threshold = R(2) /\ portfolio_threshold = R(2)
    /\ data \in Tables(3, MaxRows, MaxPrice) \cup {EmptyFrame}
    /\ weights \in WeightVectors \cup {None}
    /\ initial_value \in InitialValues
    /\ portfolio_value = <<>>

CallComputePortfolioValue ==
    /\ pc = "compute_portfolio_value"
    /\ LET r == compute_portfolio_value(data, weights, initial_value)
       IN  /\ exc' = r.exc
           /\ portfolio_value' = r.value
    /\ pc' = "returned"
    /\ UNCHANGED <<tickers_input, raw_weights, tickers, weights, stock_threshold,
                   portfolio_threshold, load_data_clicked, start_date, end_date, source,
                   data, invalid_tickers, initial_value, metrics, portfolio_alert,
                   stock_alerts, latest_flags>>

NextValue == CallComputePortfolioValue
SpecValue == InitValue /\ [][NextValue]_vars

----------------------------------------------------------------------------
(* SpecMetrics: the three metric functions called on any value series      *)

InitMetrics ==
    /\ pc \in {"compute_portfolio_metrics", "compute_sharpe_ratio", "compute_sortino_ratio"}
    /\ exc = "none"
    /\ NoSession /\ NoResults
    /\ tickers = <<>> /\ weights = <<>>
    /\ stock_threshold = R(2) /\ portfolio_threshold = R(2)
    /\ data = EmptyFrame
    /\ initial_value = R(100000)
    /\ portfolio_value \in ValueSeries

MetricsUnchanged ==
    UNCHANGED <<tickers_input, raw_weights, tickers, weights, stock_threshold,
                portfolio_threshold, load_data_clicked, start_date, end_date, source,
                data, invalid_tickers, initial_value, portfolio_value, portfolio_alert,
                stock_alerts, latest_flags>>

CallComputePortfolioMetrics ==
    /\ pc = "compute_portfolio_metrics"
    /\ LET m == compute_portfolio_metrics(portfolio_value)
       IN  /\ exc' = m.exc
           /\ metrics' = [fn |-> "compute_portfolio_metrics", exc |-> m.exc,
                          cumulative_return |-> m.cumulative_return,
                          annual_volatility |-> m.annual_volatility,
                          max_drawdown |-> m.max_drawdown, ratio |-> RatioNaN]
    /\ pc' = "returned"
    /\ MetricsUnchanged

CallComputeSharpeRatio ==
    /\ pc = "compute_sharpe_ratio"
    /\ exc' = "none"
    /\ metrics' = [NoMetrics EXCEPT !.fn = "compute_sharpe_ratio",
                                    !.ratio = compute_sharpe_ratio(portfolio_value)]
    /\ pc' = "returned"
    /\ MetricsUnchanged

CallComputeSortinoRatio ==
    /\ pc = "compute_sortino_ratio"
    /\ exc' = "none"
    /\ metrics' = [NoMetrics EXCEPT !.fn = "compute_sortino_ratio",
                                    !.ratio = compute_sortino_ratio(portfolio_value)]
    /\ pc' = "returned"
    /\ MetricsUnchanged

NextMetrics ==
    \/ CallComputePortfolioMetrics
    \/ CallComputeSharpeRatio
    \/ CallComputeSortinoRatio
SpecMetrics == InitMetrics /\ [][NextMetrics]_vars

----------------------------------------------------------------------------
(* SpecAlerts: check_portfolio_drop and check_stock_drops called directly. *)
(* The table's columns are among AAPL and MSFT and the ticker list is any   *)
(* list over the three symbols, so a listed asset may have no column.       *)

InitAlerts ==
    /\ exc = "none"
    /\ NoSession /\ NoResults
    /\ weights = <<>>
    /\ initial_value = R(100000)
    /\ \/ /\ pc = "check_portfolio_drop"
          /\ portfolio_value \in ValueSeries
          /\ portfolio_threshold \in ThresholdValues
          /\ data = EmptyFrame /\ tickers = <<>> /\ stock_threshold = R(2)
       \/ /\ pc = "check_stock_drops"
          /\ data \in TablesAmong({"AAPL", "MSFT"}, MaxDates, MaxPrice) \cup {EmptyFrame}
          /\ tickers \in TickerLists
          /\ stock_threshold \in ThresholdValues
          /\ portfolio_value = <<>> /\ portfolio_threshold = R(2)

CallCheckPortfolioDrop ==
    /\ pc = "check_portfolio_drop"
    /\ portfolio_alert' = check_portfolio_drop(portfolio_value, portfolio_threshold)
    /\ pc' = "check_portfolio_drop returned"
    /\ UNCHANGED <<exc, tickers_input, raw_weights, tickers, weights, stock_threshold,
                   portfolio_threshold, load_data_clicked, start_date, end_date, source,
                   data, invalid_tickers, initial_value, portfolio_value, metrics,
                   stock_alerts, latest_flags>>

CallCheckStockDrops ==
    /\ pc = "check_stock_drops"
    /\ stock_alerts' = check_stock_drops(data, tickers, stock_threshold)
    /\ pc' = "check_stock_drops returned"
    /\ UNCHANGED <<exc, tickers_input, raw_weights, tickers, weights, stock_threshold,
                   portfolio_threshold, load_data_clicked, start_date, end_date, source,
                   data, invalid_tickers, initial_value, portfolio_value, metrics,
                   portfolio_alert, latest_flags>>

NextAlerts == CallCheckPortfolioDrop \/ CallCheckStockDrops
SpecAlerts == InitAlerts /\ [][NextAlerts]_vars

----------------------------------------------------------------------------
(* app.py: the Streamlit script.  Every interaction with a widget reruns   *)
(* the script from its first line with the widgets' current values; the    *)
(* script's sections are the actions Sidebar, LoadData, PortfolioSection   *)
(* and AlertsColumn, and an uncaught exception ends the run.               *)

\* app.py:20, the default text "AAPL,MSFT,TSLA"
DefaultTickersInput == <<"AAPL", "MSFT", "TSLA">>

RECURSIVE Dedupe(_)
\* list(dict.fromkeys(tickers)): first occurrences, in order
Dedupe(ts) ==
    IF ts = <<>> THEN <<>>
    ELSE LET init == Dedupe(SubSeq(ts, 1, Len(ts) - 1))
             last == ts[Len(ts)]
         IN  IF last \in Range(init) THEN init ELSE Append(init, last)

\* app.py:25-26; the token "" stands for a blank one
ParseTickers(input) ==
    LET NonBlank(t) == t # ""
        kept == SelectSeq(input, NonBlank)
    IN  Dedupe([i \in DOMAIN kept |-> Upper(kept[i])])

\* app.py:36, value=int(100 / len(tickers))
DefaultRawWeights(ts) ==
    IF Len(ts) > 1 THEN [t \in Range(ts) |-> 100 \div Len(ts)] ELSE <<>>

\* app.py:30-52
SidebarWeights(ts, raw) ==
    IF Len(ts) > 1
    THEN LET total == SumOver([t \in Range(ts) |-> R(raw[t])], Range(ts))
         IN  IF total = R(0)
             THEN [t \in Range(ts) |-> RDiv(R(1), R(Len(ts)))]
             ELSE [t \in Range(ts) |-> RDiv(R(raw[t]), total)]
    ELSE IF Len(ts) = 1 THEN [t \in Range(ts) |-> R(1)]
    ELSE <<>>

\* what the text area is edited to: blank, lower-case and repeated tokens,
\* one, two and three symbols, in and out of alphabetical order
TickerInputs ==
    {<<>>, <<"">>, <<"aapl">>, <<"TSLA">>, <<"aapl", "AAPL">>, <<"MSFT", "AAPL">>,
     <<"AAPL", "", "TSLA">>, DefaultTickersInput, <<"TSLA", "MSFT", "AAPL">>}

\* The price history of the market, n days of it: AAPL rises, MSFT falls and
\* TSLA stays.
MarketClose(t, n) ==
    [i \in 1..n |->
        IF t = "AAPL" THEN R(IF i < MaxPrice THEN i ELSE MaxPrice)
        ELSE IF t = "MSFT" THEN R(IF i < MaxPrice THEN MaxPrice + 1 - i ELSE 1)
        ELSE R(MaxPrice)]

\* What yf.download may answer a request for the tickers ts with.  A ticker's
\* close column is all NaN (nothing for it) or n prices; mode "market": the
\* prices of MarketClose; "any": any prices.
CloseSeries(t, n, mode) ==
    {s \in [1..n -> {R(p) : p \in 1..MaxPrice} \cup {NaN}] :
        \/ AllNaN(s)
        \/ mode = "any" /\ \A i \in 1..n : ~IsNaN(s[i])
        \/ mode = "market" /\ s = MarketClose(t, n)}
\* The columns come in alphabetical order; with `varied`, also in the order
\* requested, and also without a column for the tickers that have nothing.
HasPrices(c, t) == ~AllNaN(c[t])
AnswerCols(ts, c, varied) ==
    LET Present(t) == HasPrices(c, t)
    IN  {SortedCols(Range(ts))}
        \cup (IF varied
              THEN {ts, SelectSeq(SortedCols(Range(ts)), Present), SelectSeq(ts, Present)}
              ELSE {})
\* the three layouts of an answer: an exception, a frame with one close
\* column per ticker, and the flat frame of the single ticker path
RaiseAnswer ==
    [kind |-> "raise", flat |-> FALSE, index |-> <<>>, cols |-> <<>>, close |-> <<>>]
MultiAnswer(n, cs, c) ==
    [kind |-> "frame", flat |-> FALSE, index |-> [i \in 1..n |-> i], cols |-> cs, close |-> c]
FlatAnswer(n, c) ==
    [kind |-> "frame", flat |-> TRUE, index |-> [i \in 1..n |-> i],
     cols |-> <<"Close">>, close |-> [k \in {"Close"} |-> c]]

\* the values of one run, before the script computes them
FreshRun ==
    /\ exc' = "none"
    /\ source' = NoSource
    /\ invalid_tickers' = <<>>
    /\ portfolio_value' = <<>>
    /\ metrics' = NoMetrics
    /\ portfolio_alert' = NoAlert
    /\ stock_alerts' = <<>>
    /\ latest_flags' = <<>>

\* app.py:15-67: the sidebar; data = pd.DataFrame() by default
Sidebar ==
    /\ pc = "sidebar"
    /\ tickers' = ParseTickers(tickers_input)
    /\ weights' = SidebarWeights(ParseTickers(tickers_input), raw_weights)
    /\ data' = EmptyFrame
    /\ FreshRun
    /\ pc' = IF load_data_clicked THEN "load" ELSE "portfolio"
    /\ UNCHANGED <<tickers_input, raw_weights, stock_threshold, portfolio_threshold,
                   load_data_clicked, start_date, end_date, initial_value>>

LoadUnchanged ==
    UNCHANGED <<tickers_input, raw_weights, weights, stock_threshold, portfolio_threshold,
                load_data_clicked, start_date, end_date, initial_value, portfolio_value,
                metrics, portfolio_alert, stock_alerts, latest_flags>>

\* app.py:71-105 with an answer src of the market data source
LoadDataFrom(src) ==
    LET r == fetch_stock_data(src, tickers, start_date, end_date)
        available_tickers == r.frame.cols
        Invalid(t) == t \notin Range(available_tickers)
    IN  /\ source' = src
        /\ exc' = r.exc
        /\ IF r.exc # "none"
           THEN /\ pc' = "aborted"
                /\ UNCHANGED <<data, invalid_tickers, tickers>>
           ELSE /\ data' = r.frame
                /\ invalid_tickers' = SelectSeq(tickers, Invalid)
                /\ tickers' = available_tickers
                /\ pc' = "portfolio"

LoadDataWith(mode, varied) ==
    /\ pc = "load"
    /\ \/ /\ Len(tickers) = 0
          /\ pc' = "portfolio"
          /\ UNCHANGED <<exc, source, data, invalid_tickers, tickers>>
       \/ /\ Len(tickers) # 0
          /\ \/ LoadDataFrom(RaiseAnswer)
             \/ \E n \in 0..MaxRows :
                   \E c \in [Range(tickers) ->
                              UNION {CloseSeries(t, n, mode) : t \in Range(tickers)}] :
                      /\ \A t \in Range(tickers) : c[t] \in CloseSeries(t, n, mode)
                      /\ \E cs \in AnswerCols(tickers, c, varied) :
                            LoadDataFrom(MultiAnswer(n, cs, c))
             \/ /\ Len(tickers) = 1
                /\ \E n \in 0..MaxRows :
                      \E c \in CloseSeries(tickers[1], n, mode) :
                         LoadDataFrom(FlatAnswer(n, c))
    /\ LoadUnchanged

\* in the session the source answers from the market's history
LoadData == LoadDataWith("market", FALSE)
\* the source answers with any prices, in any of its layouts
LoadDataAnyAnswer == LoadDataWith("any", TRUE)

\* app.py:111-117
PortfolioValue(df, ts, w) ==
    IF Len(ts) = 1 THEN [exc |-> "none", value |-> df.vals[ts[1]]]
    ELSE compute_portfolio_value(df, w, R(100000))

\* app.py:149-154
AppMetrics(pv) ==
    [fn |-> "app", exc |-> "none",
     cumulative_return |-> compute_portfolio_metrics(pv).cumulative_return,
     annual_volatility |-> compute_portfolio_metrics(pv).annual_volatility,
     max_drawdown |-> compute_portfolio_metrics(pv).max_drawdown,
     ratio |-> compute_sharpe_ratio(pv)]

\* app.py:200 / visualization.py:85-86: df[t] for every t of weights
ContributionsRaise(df, ts, w) == Len(ts) > 1 /\ ~(DOMAIN w \subseteq ColSet(df))

\* app.py:109-223: valuation, the metrics and the charts of the main column
PortfolioSection ==
    /\ pc = "portfolio"
    /\ \/ /\ IsEmpty(data)
          /\ pc' = "done"
          /\ UNCHANGED <<exc, portfolio_value, metrics>>
       \/ /\ ~IsEmpty(data)
          /\ LET pv == PortfolioValue(data, tickers, weights)
             IN  /\ portfolio_value' = pv.value
                 /\ metrics' = AppMetrics(pv.value)
                 /\ IF ContributionsRaise(data, tickers, weights)
                    THEN exc' = "KeyError" /\ pc' = "aborted"
                    ELSE exc' = "none" /\ pc' = "alerts"
    /\ UNCHANGED <<tickers_input, raw_weights, tickers, weights, stock_threshold,
                   portfolio_threshold, load_data_clicked, start_date, end_date, source,
                   data, invalid_tickers, initial_value, portfolio_alert, stock_alerts,
                   latest_flags>>

\* app.py:255 / 264, abs(change) >= threshold
IsSignificantDownOnly(change, thr) == RLe(change, RNeg(thr))
IsSignificant(change, thr) == RGe(RAbs(change), thr)

\* app.py:256-258 / 266-268: the line shown for a flagged change
Flag(subject, change) ==
    [subject |-> subject,
     direction |-> IF RGt(change, R(0)) THEN "up" ELSE "down",
     change |-> Fmt2(change)]

RECURSIVE StockFlags(_, _, _)
\* app.py:262-268
StockFlags(df, ts, thr) ==
    IF ts = <<>> THEN <<>>
    ELSE (IF IsSignificant(LatestChange(df, Head(ts)), thr)
          THEN <<Flag(Head(ts), LatestChange(df, Head(ts)))>>
          ELSE <<>>) \o StockFlags(df, Tail(ts), thr)

\* app.py:252-272, the lines under "Latest Day Changes"
LatestFlags(df, ts, pv, pthr, sthr) ==
    (IF IsSignificant(LatestDrop(pv), pthr) THEN <<Flag("Portfolio", LatestDrop(pv))>>
     ELSE <<>>)
    \o StockFlags(df, ts, sthr)
    \o (IF RLt(RAbs(LatestDrop(pv)), pthr) /\ StockFlags(df, ts, sthr) = <<>>
        THEN <<[subject |-> "No significant changes", direction |-> "none", change |-> 0]>>
        ELSE <<>>)

\* app.py:228-272
AlertsColumn ==
    /\ pc = "alerts"
    /\ portfolio_alert' = check_portfolio_drop(portfolio_value, portfolio_threshold)
    /\ stock_alerts' = check_stock_drops(data, tickers, stock_threshold)
    /\ latest_flags' = LatestFlags(data, tickers, portfolio_value, portfolio_threshold,
                                   stock_threshold)
    /\ pc' = "done"
    /\ UNCHANGED <<exc, tickers_input, raw_weights, tickers, weights, stock_threshold,
                   portfolio_threshold, load_data_clicked, start_date, end_date, source,
                   data, invalid_tickers, initial_value, portfolio_value, metrics>>

\* a run has ended (at the last line or by an exception): the user acts on
\* a widget, which reruns the script; the button is True for that one run only
\* nothing the script computed survives into the next run
Rerun ==
    /\ pc' = "sidebar"
    /\ tickers' = <<>> /\ weights' = <<>> /\ data' = EmptyFrame
    /\ FreshRun
    /\ UNCHANGED initial_value

EditTickers ==
    /\ pc \in {"done", "aborted"}
    /\ \E input \in TickerInputs :
          /\ input # tickers_input
          /\ tickers_input' = input
          /\ raw_weights' = DefaultRawWeights(ParseTickers(input))
    /\ load_data_clicked' = FALSE
    /\ Rerun
    /\ UNCHANGED <<stock_threshold, portfolio_threshold, start_date, end_date>>

EditWeight ==
    /\ pc \in {"done", "aborted"}
    /\ \E t \in DOMAIN raw_weights, w \in 0..MaxRawWeight :
          /\ raw_weights[t] # w
          /\ raw_weights' = [raw_weights EXCEPT ![t] = w]
    /\ load_data_clicked' = FALSE
    /\ Rerun
    /\ UNCHANGED <<tickers_input, stock_threshold, portfolio_threshold, start_date, end_date>>

EditThreshold ==
    /\ pc \in {"done", "aborted"}
    /\ \E thr \in ThresholdValues :
          \/ /\ thr # stock_threshold
             /\ stock_threshold' = thr
             /\ UNCHANGED portfolio_threshold
          \/ /\ thr # portfolio_threshold
             /\ portfolio_threshold' = thr
             /\ UNCHANGED stock_threshold
    /\ load_data_clicked' = FALSE
    /\ Rerun
    /\ UNCHANGED <<tickers_input, raw_weights, start_date, end_date>>

\* app.py:22-23, the two date inputs; dates are positions among the trading
\* days the market data source knows
EditDates ==
    /\ pc \in {"done", "aborted"}
    /\ \E d \in 1..MaxRows :
          \/ /\ d # start_date
             /\ start_date' = d
             /\ UNCHANGED end_date
          \/ /\ d # end_date
             /\ end_date' = d
             /\ UNCHANGED start_date
    /\ load_data_clicked' = FALSE
    /\ Rerun
    /\ UNCHANGED <<tickers_input, raw_weights, stock_threshold, portfolio_threshold>>

ClickLoadData ==
    /\ pc \in {"done", "aborted"}
    /\ load_data_clicked' = TRUE
    /\ Rerun
    /\ UNCHANGED <<tickers_input, raw_weights, stock_threshold, portfolio_threshold,
                   start_date, end_date>>

\* the first run of a session: every widget at its default
InitApp ==
    /\ pc = "sidebar"
    /\ exc = "none"
    /\ tickers_input = DefaultTickersInput
    /\ raw_weights = DefaultRawWeights(ParseTickers(DefaultTickersInput))
    /\ tickers = <<>> /\ weights = <<>>
    /\ stock_threshold = R(2) /\ portfolio_threshold = R(2)
    /\ load_data_clicked = FALSE
    /\ start_date = 1 /\ end_date = MaxRows
    /\ source = NoSource
    /\ data = EmptyFrame
    /\ invalid_tickers = <<>>
    /\ initial_value = R(100000)
    /\ portfolio_value = <<>>
    /\ NoResults

NextApp ==
    \/ Sidebar
    \/ LoadData
    \/ PortfolioSection
    \/ AlertsColumn
    \/ EditTickers
    \/ EditWeight
    \/ EditThreshold
    \/ EditDates
    \/ ClickLoadData
SpecApp == InitApp /\ [][NextApp]_vars
Spec == SpecApp

----------------------------------------------------------------------------
(* SpecLoad: the Load Data section (app.py:71-105) for any ticker list     *)
(* and any answer of the market data source                                *)

InitLoad ==
    /\ pc = "load"
    /\ exc = "none"
    /\ tickers \in TickerLists
    /\ tickers_input = tickers
    /\ raw_weights = DefaultRawWeights(tickers)
    /\ weights = SidebarWeights(tickers, DefaultRawWeights(tickers))
    /\ stock_threshold = R(2) /\ portfolio_threshold = R(2)
    /\ load_data_clicked = TRUE
    /\ start_date = 1 /\ end_date = MaxRows
    /\ source = NoSource
    /\ data = EmptyFrame
    /\ invalid_tickers = <<>>
    /\ initial_value = R(100000)
    /\ portfolio_value = <<>>
    /\ NoResults

NextLoad == LoadDataAnyAnswer
SpecLoad == InitLoad /\ [][NextLoad]_vars

----------------------------------------------------------------------------
(* SpecLatest: the alerts column (app.py:228-272) on the price tables the  *)
(* script can reach it with: gap-free, of the columns AAPL and MSFT or one *)
(* of them, the columns the ticker list, the weights those of the sidebar, *)
(* the value series that of app.py:111-117                                 *)
(* (the metrics of the main column play no part in the alerts column and   *)
(* are left out of this specification)                                     *)

InitLatest ==
    /\ pc = "alerts"
    /\ exc = "none"
    /\ data \in TablesAmong({"AAPL", "MSFT"}, MaxDates, MaxPrice)
    /\ tickers = data.cols
    /\ tickers_input = tickers
    /\ raw_weights \in (IF Len(tickers) > 1 THEN [Range(tickers) -> 0..MaxRawWeight]
                        ELSE {<<>>})
    /\ weights = SidebarWeights(tickers, raw_weights)
    /\ stock_threshold \in ThresholdValues
    /\ portfolio_threshold \in ThresholdValues
    /\ load_data_clicked = TRUE
    /\ start_date = 1 /\ end_date = MaxDates
    /\ source = [kind |-> "frame", flat |-> FALSE, index |-> data.index,
                 cols |-> data.cols, close |-> data.vals]
    /\ invalid_tickers = <<>>
    /\ initial_value = R(100000)
    /\ portfolio_value = PortfolioValue(data, tickers, weights).value
    /\ metrics = NoMetrics
    /\ portfolio_alert = NoAlert
    /\ stock_alerts = <<>>
    /\ latest_flags = <<>>

NextLatest == AlertsColumn
SpecLatest == InitLatest /\ [][NextLatest]_vars

----------------------------------------------------------------------------
(* Claims about compute_portfolio_value (SpecValue)                        *)

\* the weight vector is one for the table: None, or a weight for exactly
\* the table's columns
WeightsMatchTable == weights = None \/ DOMAIN weights = ColSet(data)

\* C1: for every non-empty price table, every weight vector for it and every
\* initial_value, compute_portfolio_value returns a series whose first
\* element is exactly initial_value.
C1_FirstValueIsInitial ==
    (pc = "returned" /\ ~IsEmpty(data) /\ WeightsMatchTable)
        => /\ exc = "none"
           /\ Len(portfolio_value) >= 1
           /\ portfolio_value[1] = initial_value

\* C3: a weight vector whose raw values sum to 0 makes compute_portfolio_value
\* fall back to equal weights 1/N over the N symbols and return a value
\* series without raising.
C3_ZeroSumFallsBackToEqual ==
    (/\ pc = "returned" /\ ~IsEmpty(data)
     /\ weights # None /\ DOMAIN weights = ColSet(data)
     /\ \A k \in DOMAIN weights : weights[k] = R(0))
        => /\ exc = "none"
           /\ portfolio_value =
                WeightedSum(data, [i \in DOMAIN data.cols |-> Norm(1, Len(data.cols))],
                            initial_value)

----------------------------------------------------------------------------
(* Claims about the alert functions (SpecAlerts); the value series and     *)
(* price tables of SpecAlerts hold integers, so the claims are stated in   *)
(* integer arithmetic on the inputs                                        *)

IntOf(x) == x[1]

\* 200 * v1 * | m/100 - (v1 - v)/v1 * 100 | <= v1: m hundredths is the
\* two-decimal rendering of the percentage drop from v1 to v
RendersDrop(m, v1, v) == 2 * Abs(m * v1 - 10000 * (v1 - v)) <= v1

\* C4: check_portfolio_drop on a non-empty series alerts iff some point is
\* at least threshold percent below the first value (equality triggers), and
\* the alert reports the worst such drop over the whole series, not the
\* latest one.
C4_PortfolioDropIsWorstOverSeries ==
    (pc = "check_portfolio_drop returned" /\ Len(portfolio_value) >= 1)
        => LET v == [i \in DOMAIN portfolio_value |-> IntOf(portfolio_value[i])]
               thr == IntOf(portfolio_threshold)
               breached == \E i \in DOMAIN v : (v[i] - v[1]) * 100 <= -thr * v[1]
           IN  /\ breached <=> portfolio_alert # NoAlert
               /\ breached =>
                    /\ portfolio_alert.subject = "Portfolio"
                    /\ portfolio_alert.threshold = portfolio_threshold
                    /\ \E i \in DOMAIN v :
                          /\ \A j \in DOMAIN v : v[i] <= v[j]
                          /\ RendersDrop(portfolio_alert.magnitude, v[1], v[i])

\* C4 witness: [3, 1, 2] with threshold 50 reports the 66.67% drop to 1,
\* not the 33.33% of the latest point
C4_Witness ==
    /\ pc = "check_portfolio_drop returned"
    /\ portfolio_value = <<R(3), R(1), R(2)>>
    /\ portfolio_threshold = R(50)
    /\ portfolio_alert = [subject |-> "Portfolio", magnitude |-> 6667, threshold |-> R(50)]

\* asset t of the table has a day-over-day change <= -thr percent
AssetBreached(t, thr) ==
    /\ t \in ColSet(data)
    /\ \E i \in 2..NRows(data) :
          (IntOf(data.vals[t][i]) - IntOf(data.vals[t][i - 1])) * 100
              <= -thr * IntOf(data.vals[t][i - 1])

\* m hundredths renders the worst single-day drop of asset t
RendersWorstDay(m, t) ==
    \E i \in 2..NRows(data) :
        LET a == IntOf(data.vals[t][i - 1])
            b == IntOf(data.vals[t][i])
        IN  /\ \A j \in 2..NRows(data) :
                  IntOf(data.vals[t][j]) * a >= b * IntOf(data.vals[t][j - 1])
            /\ RendersDrop(m, a, b)

BreachedNow(t) == AssetBreached(t, IntOf(stock_threshold))

----------------------------------------------------------------------------
(* Claims about the metric functions (SpecMetrics)                         *)

\* C7: on a series of fewer than 2 points none of the three metric functions
\* raises, and the quantities that need a daily return (volatility, Sharpe,
\* Sortino) are the NaN sentinel.
C7_ShortSeriesNeverRaises ==
    (pc = "returned" /\ Len(portfolio_value) < 2)
        => /\ exc = "none"
           /\ metrics.fn = "compute_portfolio_metrics"
                => IsNaN(metrics.annual_volatility.sqrt_of)
           /\ metrics.fn \in {"compute_sharpe_ratio", "compute_sortino_ratio"}
                => IsRatioNaN(metrics.ratio)

NoNegativeReturn ==
    \A i \in 2..Len(portfolio_value) :
        IntOf(portfolio_value[i]) >= IntOf(portfolio_value[i - 1])

\* C8: compute_sortino_ratio on a series of at least 2 points without a
\* negative daily return returns NaN: it neither raises nor returns a number.
C8_SortinoUndefinedWithoutDownside ==
    (/\ pc = "returned" /\ metrics.fn = "compute_sortino_ratio"
     /\ Len(portfolio_value) >= 2 /\ NoNegativeReturn)
        => exc = "none" /\ IsRatioNaN(metrics.ratio)

\* C8 witness: the strictly increasing series [1, 2, 3]
C8_Witness ==
    /\ pc = "returned" /\ metrics.fn = "compute_sortino_ratio"
    /\ portfolio_value = <<R(1), R(2), R(3)>>
    /\ IsRatioNaN(metrics.ratio)

----------------------------------------------------------------------------
(* Claims about the session (SpecApp)                                      *)

\* the run has valued the portfolio of a non-empty table
Valued == ~IsEmpty(data) /\ pc \in {"alerts", "done", "aborted"}

\* C2: in every run that reaches portfolio valuation, also after Load Data
\* removed invalid tickers, the weights applied to the price columns are
\* weights for exactly the table's symbols and sum to 1.  (A single-column
\* table is valued as the column itself, weight 1.)
C2_AppliedWeightsCoverTableAndSumToOne ==
    (Valued /\ Len(tickers) > 1)
        => /\ DOMAIN weights = ColSet(data)
           /\ SumSeq(WeightsList(data, NormalizeWeights(data, weights))) = R(1)

----------------------------------------------------------------------------
(* Claims about the Load Data section (SpecLoad); tickers_input holds the  *)
(* requested list, which LoadData overwrites in tickers                    *)

Loaded == pc \in {"portfolio", "aborted"} /\ source.kind # "none"

\* the source's answer has prices for the requested ticker t
SourceHas(t) ==
    /\ source.kind = "frame"
    /\ IF source.flat THEN ~AllNaN(source.close["Close"])
       ELSE t \in Range(source.cols) /\ ~AllNaN(source.close[t])
SourceLacks(t) == ~SourceHas(t)
Requested == tickers_input

\* C9: whatever the market data source does (all symbols, some, none, or an
\* exception), fetch_stock_data returns a table to its caller, empty when
\* nothing was returned or the source raised, and no exception propagates.
C9_FetchNeverRaises ==
    Loaded => /\ exc = "none"
              /\ pc = "portfolio"
              /\ (\A t \in Range(Requested) : SourceLacks(t)) => IsEmpty(data)

\* C10: the table fetch_stock_data returns has exactly the columns of the
\* requested symbols the source has prices for, with those prices; the
\* caller's invalid_tickers is the requested symbols without prices, in
\* request order; and the run goes on with the table's columns as its
\* ticker list.
C10_InvalidTickersAreTheAbsentOnes ==
    (Loaded /\ source.kind = "frame")
        => /\ pc = "portfolio" /\ exc = "none"
           /\ ColSet(data) = {t \in Range(Requested) : SourceHas(t)}
           /\ \A t \in ColSet(data) :
                data.vals[t] = source.close[IF source.flat THEN "Close" ELSE t]
           /\ invalid_tickers = SelectSeq(Requested, SourceLacks)
           /\ tickers = data.cols
           /\ \A i, j \in DOMAIN tickers : i # j => tickers[i] # tickers[j]

\* C10 witness: of TSLA, AAPL and MSFT the source has prices for MSFT only
C10_Witness ==
    /\ pc = "portfolio"
    /\ Requested = <<"TSLA", "AAPL", "MSFT">>
    /\ source.kind = "frame" /\ Len(source.cols) = 3 /\ Len(source.index) = MaxRows
    /\ data.cols = <<"MSFT">> /\ NRows(data) = MaxRows
    /\ invalid_tickers = <<"TSLA", "AAPL">>
    /\ tickers = <<"MSFT">>

----------------------------------------------------------------------------
(* Claims about the alerts column (SpecLatest)                             *)

IsFlag(f) == f.subject # "No significant changes"
FlagsShown == SelectSeq(latest_flags, IsFlag)

\* numerator and denominator of the latest value against the first one:
\* portfolio_value[n] / portfolio_value[1] = LatestNum / LatestDen
LatestNum == portfolio_value[Len(portfolio_value)][1] * portfolio_value[1][2]
LatestDen == portfolio_value[Len(portfolio_value)][2] * portfolio_value[1][1]

\* the latest day-over-day move of asset t, from LastBut(t) to Last(t)
Last(t) == IntOf(data.vals[t][NRows(data)])
LastBut(t) == IntOf(data.vals[t][NRows(data) - 1])

PortfolioMoved == Abs(LatestNum - LatestDen) * 100 >= IntOf(portfolio_threshold) * LatestDen
AssetMoved(t) ==
    /\ NRows(data) >= 2
    /\ Abs(Last(t) - LastBut(t)) * 100 >= IntOf(stock_threshold) * LastBut(t)
PortfolioFell == (LatestNum - LatestDen) * 100 <= -IntOf(portfolio_threshold) * LatestDen
AssetFell(t) ==
    /\ NRows(data) >= 2
    /\ (Last(t) - LastBut(t)) * 100 <= -IntOf(stock_threshold) * LastBut(t)

\* C5 as amended: the latest-day check flags the portfolio (latest value
\* against the first) and, independently, each asset (latest day-over-day
\* change) exactly when the absolute value of that one change is >= its
\* threshold, whichever the direction; the flag shows up for a change > 0
\* and down otherwise.
C5_LatestFlagsEitherDirection ==
    pc = "done"
        => /\ [i \in DOMAIN FlagsShown |-> FlagsShown[i].subject]
                = (IF PortfolioMoved THEN <<"Portfolio">> ELSE <<>>)
                    \o SelectSeq(tickers, AssetMoved)
           /\ \A i \in DOMAIN FlagsShown :
                FlagsShown[i].direction =
                    IF FlagsShown[i].subject = "Portfolio"
                    THEN (IF LatestNum > LatestDen THEN "up" ELSE "down")
                    ELSE (IF Last(FlagsShown[i].subject) > LastBut(FlagsShown[i].subject)
                          THEN "up" ELSE "down")

\* C5 as claimed: the portfolio and each asset are flagged exactly when the
\* most recent change is <= -threshold.
C5_LatestFlagsOnlyDrops ==
    pc = "done"
        => [i \in DOMAIN FlagsShown |-> FlagsShown[i].subject]
              = (IF PortfolioFell THEN <<"Portfolio">> ELSE <<>>)
                  \o SelectSeq(tickers, AssetFell)

\* C5 witness: thresholds of 50; AAPL fell 50% on the first day and rose
\* 100% on the latest: flagged up, while the cumulative alert names its 50%
\* drop; MSFT fell 50% on the latest day: flagged down
C5_Witness ==
    /\ pc = "done"
    /\ stock_threshold = R(50) /\ portfolio_threshold = R(50)
    /\ data.vals = [t \in {"AAPL", "MSFT"} |->
                      IF t = "AAPL" THEN <<R(2), R(1), R(2)>> ELSE <<R(2), R(2), R(1)>>]
    /\ FlagsShown = <<[subject |-> "AAPL", direction |-> "up", change |-> 10000],
                      [subject |-> "MSFT", direction |-> "down", change |-> -5000]>>

----------------------------------------------------------------------------
(* Claims about the run loop (SpecApp)                                     *)

\* every widget holds the value it has when the session starts
SessionDefaults ==
    /\ tickers_input = DefaultTickersInput
    /\ raw_weights = DefaultRawWeights(ParseTickers(DefaultTickersInput))
    /\ stock_threshold = R(2) /\ portfolio_threshold = R(2)
    /\ start_date = 1 /\ end_date = MaxRows

\* the run was started by a change of an input: not by the Load Data button,
\* and not by the start of the session, whose inputs are the defaults
RunOfAChange == ~load_data_clicked /\ ~SessionDefaults

\* C11: every run that a change of tickers, dates, weights or thresholds
\* started is an end-to-end run of the pipeline on the inputs as changed:
\* when it ends, the market data source has been asked for the tickers.
C11_EveryChangeRunsThePipeline ==
    (pc \in {"done", "aborted"} /\ RunOfAChange /\ ParseTickers(tickers_input) # <<>>)
        => source.kind # "none"

----------------------------------------------------------------------------
(* SpecFetch: fetch_stock_data called on answers with gaps, for any date   *)
(* range.  AAPL's close column is any series of up to MaxDates days with   *)
(* prices missing anywhere; MSFT's, when requested, is all missing, whole, *)
(* or missing on the first day.                                            *)

GappedSeries(n) == [1..n -> {R(p) : p \in 1..MaxPrice} \cup {NaN}]

SecondColumns(n) ==
    {[i \in 1..n |-> NaN], MarketClose("MSFT", n),
     [i \in 1..n |-> IF i = 1 THEN NaN ELSE MarketClose("MSFT", n)[i]]}

\* the answers of n days to a request for ts: the single ticker path's flat
\* frame or one column per ticker
GappedAnswersOf(ts, n) ==
    IF Len(ts) = 1
    THEN UNION {{FlatAnswer(n, a), MultiAnswer(n, ts, [t \in Range(ts) |-> a])} :
                  a \in GappedSeries(n)}
    ELSE {MultiAnswer(n, ts, [t \in Range(ts) |-> IF t = ts[1] THEN a ELSE m]) :
            a \in GappedSeries(n), m \in SecondColumns(n)}
GappedAnswers(ts) == {RaiseAnswer} \cup UNION {GappedAnswersOf(ts, n) : n \in 0..MaxDates}

InitFetch ==
    /\ pc = "fetch_stock_data"
    /\ exc = "none"
    /\ tickers \in {<<"AAPL">>, <<"AAPL", "MSFT">>}
    /\ tickers_input = tickers
    /\ raw_weights = <<>> /\ weights = <<>>
    /\ stock_threshold = R(2) /\ portfolio_threshold = R(2)
    /\ load_data_clicked = FALSE
    /\ start_date \in 1..MaxDates
    /\ end_date \in 1..MaxDates
    /\ source \in GappedAnswers(tickers)
    /\ data = EmptyFrame
    /\ invalid_tickers = <<>>
    /\ initial_value = R(100000)
    /\ portfolio_value = <<>>
    /\ NoResults

CallFetchStockData ==
    /\ pc = "fetch_stock_data"
    /\ LET r == fetch_stock_data(source, tickers, start_date, end_date)
       IN  /\ exc' = r.exc
           /\ data' = r.frame
    /\ pc' = "fetch_stock_data returned"
    /\ UNCHANGED <<tickers_input, raw_weights, tickers, weights, stock_threshold,
                   portfolio_threshold, load_data_clicked, start_date, end_date, source,
                   invalid_tickers, initial_value, portfolio_value, metrics,
                   portfolio_alert, stock_alerts, latest_flags>>

NextFetch == CallFetchStockData
SpecFetch == InitFetch /\ [][NextFetch]_vars

----------------------------------------------------------------------------
(* Claims about the missing-data policy (SpecFetch); the dates of an       *)
(* answer are 1..n, so a date is its own position in the answer            *)

\* the answer's close column of the requested ticker t
SourceClose(t) == source.close[IF source.flat THEN "Close" ELSE t]
Observed(t, d) == ~IsNaN(SourceClose(t)[d])
HasObservation(t) == \E d \in DOMAIN source.index : Observed(t, d)
InRange(d) == start_date <= d /\ d <= end_date

\* the price known for t on date d: the last observation up to d, and before
\* the first observation, that first one
KnownPrice(t, d) ==
    IF \E j \in 1..d : Observed(t, j)
    THEN SourceClose(t)[CHOOSE j \in 1..d :
                          Observed(t, j) /\ \A k \in (j + 1)..d : ~Observed(t, k)]
    ELSE SourceClose(t)[CHOOSE j \in d..Len(source.index) :
                          Observed(t, j) /\ \A k \in d..(j - 1) : ~Observed(t, k)]

\* C12: the table fetch_stock_data returns keeps exactly the columns with an
\* observation on some date of the answer; on every date of the requested
\* range every kept column has a price, the last earlier known one, or the
\* first known one in a leading gap, taken from the whole answer including
\* the dates outside the range (the range is cut after the fill).
C12_FilledBeforeDateRange ==
    (pc = "fetch_stock_data returned" /\ source.kind = "frame")
        => IF \A t \in Range(tickers) : ~HasObservation(t)
           THEN exc = "none" /\ data = EmptyFrame
           ELSE /\ exc = "none"
                /\ data.cols = SelectSeq(tickers, HasObservation)
                /\ data.index = SelectSeq(source.index, InRange)
                /\ \A t \in ColSet(data), r \in DOMAIN data.index :
                      /\ ~IsNaN(data.vals[t][r])
                      /\ data.vals[t][r] = KnownPrice(t, data.index[r])

\* C12 witness: AAPL observed on day 2 only, MSFT never; the range is day 3
\* alone: MSFT is dropped and AAPL holds day 2's price on day 3
C12_Witness ==
    /\ pc = "fetch_stock_data returned"
    /\ tickers = <<"AAPL", "MSFT">>
    /\ source.kind = "frame"
    /\ source.close["AAPL"] = <<NaN, R(2), NaN>>
    /\ start_date = 3 /\ end_date = 3
    /\ data = Frame(<<3>>, <<"AAPL">>, [t \in {"AAPL"} |-> <<R(2)>>])

----------------------------------------------------------------------------
(* Claims about the drawdown (SpecMetrics), in integer arithmetic on the   *)
(* values of the series                                                    *)

ValueAt(i) == IntOf(portfolio_value[i])
\* the highest value up to point i
RunningMax(i) ==
    CHOOSE m \in {ValueAt(k) : k \in 1..i} : \A k \in 1..i : ValueAt(k) <= m
AllTimeMax == RunningMax(Len(portfolio_value))
StrictlyIncreasing == \A i \in 2..Len(portfolio_value) : ValueAt(i) > ValueAt(i - 1)

\* C13: the Max Drawdown of compute_portfolio_metrics on a non-empty series
\* is the lowest (value - running maximum) over the points of the series,
\* divided by the all-time maximum of the series; it is 0 for every strictly
\* increasing series.
C13_DrawdownOverAllTimeMax ==
    (/\ pc = "returned" /\ metrics.fn = "compute_portfolio_metrics"
     /\ Len(portfolio_value) >= 1)
        => /\ exc = "none"
           /\ metrics.max_drawdown[2] > 0
           /\ \E i \in DOMAIN portfolio_value :
                /\ \A j \in DOMAIN portfolio_value :
                      ValueAt(i) - RunningMax(i) <= ValueAt(j) - RunningMax(j)
                /\ metrics.max_drawdown[1] * AllTimeMax
                      = (ValueAt(i) - RunningMax(i)) * metrics.max_drawdown[2]
           /\ StrictlyIncreasing => metrics.max_drawdown = R(0)

\* C13 witness: [2, 1, 3] falls by 1 from its peak of 2 and later reaches 3:
\* the drawdown is -1/3, not the -1/2 of the peak at that instant
C13_Witness ==
    /\ pc = "returned" /\ metrics.fn = "compute_portfolio_metrics"
    /\ portfolio_value = <<R(2), R(1), R(3)>>
    /\ metrics.max_drawdown = <<-1, 3>>

----------------------------------------------------------------------------
(* Claim about a threshold of 0 (SpecAlerts)                               *)

NeverBelowFirst ==
    \A i \in DOMAIN portfolio_value : IntOf(portfolio_value[i]) >= IntOf(portfolio_value[1])

\* C14: with a portfolio threshold of 0, check_portfolio_drop returns an
\* alert for every non-empty series, also for one that never falls below
\* its first value, for which the alert reports a drop of 0.00%.
C14_ZeroThresholdAlwaysAlerts ==
    (/\ pc = "check_portfolio_drop returned" /\ Len(portfolio_value) >= 1
     /\ portfolio_threshold = R(0))
        => /\ portfolio_alert # NoAlert
           /\ portfolio_alert.subject = "Portfolio"
           /\ NeverBelowFirst => portfolio_alert.magnitude = 0

\* C14 witness: the rising series [1, 2, 3] is alerted at threshold 0
C14_Witness ==
    /\ pc = "check_portfolio_drop returned"
    /\ portfolio_value = <<R(1), R(2), R(3)>>
    /\ portfolio_threshold = R(0)
    /\ portfolio_alert = [subject |-> "Portfolio", magnitude |-> 0, threshold |-> R(0)]

=============================================================================
